---------------------------- MODULE Spec2Model ----------------------------
(***************************************************************************)
(* A model of etf_holdings_downloader.py: the HoldingsDownloader class,    *)
(* its constructor, the unit normalizer _convert_units_to_float, the       *)
(* per-symbol fetch _get_etf_from_schwab (page fetcher, pagination loop,   *)
(* aggregator, writer) and the batch loop run_schwab_download.             *)
(*                                                                         *)
(* Text is modelled as a sequence of one-character strings, so that the    *)
(* indexing and slicing the normalizer does (x[0], x[-1], x[start:-1]) is  *)
(* done on characters.  A Python float is modelled as an exact decimal     *)
(* m * 10^e kept in lowest form (m has no trailing zero); the binary       *)
(* rounding of IEEE doubles is not modelled.                               *)
(***************************************************************************)
EXTENDS Integers, Sequences, FiniteSets, TLC

VARIABLES
    pc,             \* position of the program
    symbol,         \* __init__'s argument symbol
    sort_mode,      \* __init__'s argument sort_mode
    etf_symbols,    \* self.etf_symbols
    valid_etfs,     \* self.valid_etfs
    num_files,      \* self.num_files
    raw_mode,       \* self.raw_mode
    idx,            \* position of run_schwab_download's for loop in etf_symbols
    etf_symbol,     \* _get_etf_from_schwab's argument
    driver,         \* the fetch's browser session: "none", "open" or "quit"
    num_pages,      \* _get_etf_from_schwab's num_pages
    current_page,   \* the pagination loop's current_page
    dataframe_list, \* _get_etf_from_schwab's dataframe_list
    files,          \* the working directory: symbol -> content of {symbol}-holdings.csv
    exc,            \* the exception that left the program, "none" if none did
    open_sessions,  \* number of browser sessions that are open
    log,            \* history: one entry per call of _get_etf_from_schwab
    total_results,  \* history: the result count the pagination indicator showed
    clicks,         \* history: the page numbers whose control the fetch invoked
    norm_calls,     \* history: calls of the normalizer made by the last write
    x,              \* _convert_units_to_float's argument
    ret,            \* what the function under test returned or raised
    raw_df,         \* result_df of line 92, before the writer's normalization
    polls           \* history: ticks so far of the stability poll that is running

vars == <<pc, symbol, sort_mode, etf_symbols, valid_etfs, num_files, raw_mode,
          idx, etf_symbol, driver, num_pages, current_page, dataframe_list,
          files, exc, open_sessions, log, total_results, clicks, norm_calls,
          x, ret, raw_df, polls>>

---------------------------------------------------------------------------
(* Bounds of the model. *)

\* longest text token given to the normalizer
MaxLen == 4
\* longest symbol list given to run_schwab_download
MaxSymbols == 3
\* largest page count the pagination indicator announces
MaxPages == 2
\* most Page Snapshots handed to the aggregator on its own
MaxSnapshots == 2
\* most rows of one Page Snapshot handed to the aggregator on its own
MaxRows == 2

\* the count of poll ticks is kept up to this number
MaxPolls == 2

\* rows per page the fetch asks for (perpage='60', and the divisor of line 73)
PerPage == 60

---------------------------------------------------------------------------
(* Python values: text, float, int. *)

RECURSIVE Lowest(_, _)
\* the decimal m * 10^e in lowest form
Lowest(m, e) ==
    IF m = 0 THEN [m |-> 0, e |-> 0]
    ELSE IF m % 10 = 0 THEN Lowest(m \div 10, e + 1)
    ELSE [m |-> m, e |-> e]

StrVal(s) == [t |-> "str", s |-> s, m |-> 0, e |-> 0]
FloatVal(m, e) == [t |-> "float", s |-> <<>>, m |-> Lowest(m, e).m, e |-> Lowest(m, e).e]
IntVal(n) == [t |-> "int", s |-> <<>>, m |-> n, e |-> 0]

\* the outcome of a call: a returned value or a raised exception
Return(v) == [ok |-> TRUE, val |-> v, exc |-> "none"]
Raise(name) == [ok |-> FALSE, val |-> IntVal(0), exc |-> name]

Digits == {"0", "1", "2", "3", "4", "5", "6", "7", "8", "9"}

DigitVal(c) ==
    CASE c = "0" -> 0 [] c = "1" -> 1 [] c = "2" -> 2 [] c = "3" -> 3
      [] c = "4" -> 4 [] c = "5" -> 5 [] c = "6" -> 6 [] c = "7" -> 7
      [] c = "8" -> 8 [] c = "9" -> 9

RECURSIVE DigitsToInt(_)
\* the integer a sequence of digits and points writes, the points skipped
DigitsToInt(s) ==
    IF s = <<>> THEN 0
    ELSE LET init == SubSeq(s, 1, Len(s) - 1)
             last == s[Len(s)]
         IN  IF last = "." THEN DigitsToInt(init)
             ELSE 10 * DigitsToInt(init) + DigitVal(last)

\* Python's float(s) on text made of digits, '.', a sign and other characters:
\* an optional sign, then digits with at most one point and at least one digit;
\* anything else is a ValueError.
float(s) ==
    LET signed == Len(s) > 0 /\ s[1] \in {"-", "+"}
        body == IF signed THEN Tail(s) ELSE s
        dots == {i \in DOMAIN body : body[i] = "."}
        digs == {i \in DOMAIN body : body[i] \in Digits}
    IN  IF digs = {} \/ Cardinality(dots) > 1 \/ (digs \cup dots) # DOMAIN body
        THEN Raise("ValueError")
        ELSE LET frac == IF dots = {} THEN 0
                         ELSE Len(body) - (CHOOSE i \in dots : TRUE)
                 mag == DigitsToInt(body)
             IN  Return(FloatVal(IF signed /\ s[1] = "-" THEN 0 - mag ELSE mag,
                                 0 - frac))

\* r * 10^k for a float r (k = -2 is the division by 100), an exception kept
Scale(r, k) == IF r.ok THEN Return(FloatVal(r.val.m, r.val.e + k)) ELSE r

\* Python's x[a:b] with a >= 0 and b = -1 (drop the last character)
SliceToLast(s, a) == SubSeq(s, a + 1, Len(s) - 1)
\* Python's x[a:] with a >= 0
SliceFrom(s, a) == SubSeq(s, a + 1, Len(s))

Start_ignores_currency(s) == 0

\* the offset of the numeric substring (line 45)
Start(s) == IF s[1] = "$" THEN 1 ELSE 0

\* the percent rule (lines 48-49)
PercentRule(s) == Scale(float(SliceToLast(s, 0)), 0 - 2)

\* the magnitude rules (lines 50-55)
MagnitudeRule(s, k) == Scale(float(SliceToLast(s, Start(s))), k)

NegativeClamp_after_percent(s) ==
    IF s[Len(s)] = "%" THEN PercentRule(s) ELSE Return(IntVal(0))

\* the negative clamp (lines 46-47)
NegativeClamp(s) == Return(IntVal(0))

\* the pass-through of line 43-44: only a float is passed through
IsPassedThrough(v) == v.t = "float"

_convert_units_to_float(v) ==
    IF IsPassedThrough(v) THEN Return(v)
    ELSE IF v.t # "str" THEN Raise("TypeError")      \* x[0] of a number
    ELSE IF v.s = <<>> THEN Raise("IndexError")      \* x[0] of empty text
    ELSE LET s == v.s
             last == s[Len(s)]
         IN  IF s[1] = "-" THEN NegativeClamp(s)
             ELSE IF last = "%" THEN PercentRule(s)
             ELSE IF last = "K" THEN MagnitudeRule(s, 3)
             ELSE IF last = "M" THEN MagnitudeRule(s, 6)
             ELSE IF last = "B" THEN MagnitudeRule(s, 9)
             ELSE Scale(float(SliceFrom(s, Start(s))), 0)

---------------------------------------------------------------------------
(* Tables: a row is the five cells of the canonical schema <<Symbol,       *)
(* Description, Portfolio Weight, Shares Held, Market Value>> (line 92), a *)
(* table (a DataFrame, a Page Snapshot) is a sequence of rows.             *)

Txt(s) == StrVal(s)

\* holdings the site shows: Row2 is Row1 read again after its weight changed,
\* Row3 has a negative weight and a cell that is no number
Row1 == <<Txt(<<"A">>), Txt(<<"a">>), Txt(<<"4", ".", "5", "%">>),
          Txt(<<"3", ".", "5", "K">>), Txt(<<"$", "1", ".", "2", "M">>)>>
Row2 == <<Txt(<<"A">>), Txt(<<"a">>), Txt(<<"4", ".", "6", "%">>),
          Txt(<<"3", ".", "5", "K">>), Txt(<<"$", "1", ".", "2", "M">>)>>
Row3 == <<Txt(<<"C">>), Txt(<<"c">>), Txt(<<"-", "0", ".", "1", "%">>),
          Txt(<<"1", "0", "0">>), Txt(<<"N", "/", "A">>)>>
Rows == {Row1, Row2, Row3}

\* the positions of 'Portfolio Weight', 'Shares Held', 'Market Value' (lines 94-96)
NumericColumns == {3, 4, 5}
Columns == 1 .. 5

RECURSIVE concat(_)
\* pd.concat: the tables' rows, in the order of the list
concat(dfs) == IF dfs = <<>> THEN <<>> ELSE Head(dfs) \o concat(Tail(dfs))

RECURSIVE drop_duplicates_keep_last(_)
drop_duplicates_keep_last(df) ==
    IF df = <<>> THEN <<>>
    ELSE LET rest == drop_duplicates_keep_last(Tail(df))
         IN  IF \E i \in DOMAIN rest : rest[i] = Head(df)
             THEN rest ELSE <<Head(df)>> \o rest

RECURSIVE drop_duplicates(_)
\* DataFrame.drop_duplicates(): of equal rows the first is kept
drop_duplicates(df) ==
    IF df = <<>> THEN <<>>
    ELSE LET init == drop_duplicates(SubSeq(df, 1, Len(df) - 1))
             last == df[Len(df)]
         IN  IF \E i \in DOMAIN init : init[i] = last
             THEN init ELSE Append(init, last)

\* lines 90-92: the merged table
Aggregator(dfs) == drop_duplicates(concat(dfs))

WriterNormalizesWhen_inverted(raw) == ~raw

\* line 93: the writer normalizes when raw_mode is set
WriterNormalizesWhen(raw) == raw

\* lines 93-97: what the writer hands to to_csv, or the exception of the first
\* cell the normalizer fails on; Series.apply goes down one column after the
\* other.  calls: the cells <<row, column>> the normalizer was called on.
Writer(df, raw) ==
    LET n == Len(df)
        applied == [i \in 1 .. n |->
                      [c \in Columns |->
                         IF c \in NumericColumns
                         THEN _convert_units_to_float(df[i][c])
                         ELSE Return(df[i][c])]]
        cells == (1 .. n) \X NumericColumns
        pos(p) == (p[2] - 3) * n + p[1]
        failing == {p \in cells : ~applied[p[1]][p[2]].ok}
    IN  IF ~WriterNormalizesWhen(raw)
        THEN [ok |-> TRUE, table |-> df, calls |-> {}, exc |-> "none"]
        ELSE IF failing = {}
        THEN [ok |-> TRUE,
              table |-> [i \in 1 .. n |-> [c \in Columns |-> applied[i][c].val]],
              calls |-> cells, exc |-> "none"]
        ELSE LET f == CHOOSE p \in failing : \A q \in failing : pos(p) <= pos(q)
             IN  [ok |-> FALSE, table |-> <<>>,
                  calls |-> {p \in cells : pos(p) <= pos(f)},
                  exc |-> applied[f[1]][f[2]].exc]

---------------------------------------------------------------------------
(* The program's state when nothing has run. *)

Symbols == {"AAA", "BBB"}
\* a file of the working directory: absent, or the table written to it
NoFile == [exists |-> FALSE, rows |-> <<>>]
File(df) == [exists |-> TRUE, rows |-> df]

Propagated_caught_by_loop == "loop"

\* where an exception that leaves _get_etf_from_schwab takes the program:
\* run_schwab_download (lines 102-108) has no try, the run ends with it
Propagated == "raised"

\* the history of one call of _get_etf_from_schwab: its argument, the position
\* of the for loop that made it, and res: "running", then "True" or "False"
\* (the function's return value) or "raised"; err: the exception it caught
Call(s, i, r) == [sym |-> s, pos |-> i, res |-> r, err |-> "none"]
Ended(r) == [log EXCEPT ![Len(log)].res = r]

\* sequences over S of length lo .. hi
SeqsOf(S, lo, hi) == UNION {[1 .. n -> S] : n \in lo .. hi}

---------------------------------------------------------------------------
(* The unit normalizer on its own: one call of _convert_units_to_float.    *)

Chars == {"$", "-", "%", "K", "M", "B", "1", "5", "."}
Tokens == SeqsOf(Chars, 0, MaxLen)
\* numbers a cell may already hold: floats 0.0, 2.5, -1.0; ints 0, 7, 100
Numbers == {FloatVal(0, 0), FloatVal(25, 0 - 1), FloatVal(0 - 1, 0),
            IntVal(0), IntVal(7), IntVal(100)}
Inputs == {StrVal(s) : s \in Tokens} \cup Numbers

ConvertUnits ==
    /\ pc = "norm_call"
    /\ ret' = _convert_units_to_float(x)
    /\ pc' = "norm_done"
    /\ UNCHANGED <<symbol, sort_mode, etf_symbols, valid_etfs, num_files,
                   raw_mode, idx, etf_symbol, driver, num_pages, current_page,
                   dataframe_list, files, exc, open_sessions, log,
                   total_results, clicks, norm_calls, x, raw_df, polls>>

NormInit ==
    /\ pc = "norm_call"
    /\ x \in Inputs
    /\ ret = Return(IntVal(0))
    /\ symbol = "AAA" /\ sort_mode = FALSE
    /\ etf_symbols = <<>> /\ valid_etfs = <<>> /\ num_files = 0
    /\ raw_mode = FALSE /\ idx = 0 /\ etf_symbol = "AAA" /\ driver = "none"
    /\ num_pages = 0 /\ current_page = 0 /\ dataframe_list = <<>>
    /\ files = [s \in Symbols |-> NoFile] /\ exc = "none"
    /\ open_sessions = 0 /\ log = <<>> /\ total_results = 0 /\ clicks = <<>>
    /\ norm_calls = {} /\ raw_df = <<>> /\ polls = 0

NormNext == ConvertUnits

SpecNorm == NormInit /\ [][NormNext]_vars

---------------------------------------------------------------------------
(* The end of _get_etf_from_schwab: aggregator and writer (lines 90-97).   *)

\* lines 90-92: concat, drop_duplicates, the canonical column names
Aggregate ==
    /\ pc = "aggregate"
    /\ raw_df' = Aggregator(dataframe_list)
    /\ pc' = "write"
    /\ UNCHANGED <<symbol, sort_mode, etf_symbols, valid_etfs, num_files,
                   raw_mode, idx, etf_symbol, driver, num_pages, current_page,
                   dataframe_list, files, exc, open_sessions, log,
                   total_results, clicks, norm_calls, x, ret, polls>>

\* lines 93-97: the normalization asked for, then to_csv
Write ==
    /\ pc = "write"
    /\ Writer(raw_df, raw_mode).ok
    /\ files' = [files EXCEPT ![etf_symbol] = File(Writer(raw_df, raw_mode).table)]
    /\ norm_calls' = Writer(raw_df, raw_mode).calls
    /\ pc' = "written"
    /\ UNCHANGED <<symbol, sort_mode, etf_symbols, valid_etfs, num_files,
                   raw_mode, idx, etf_symbol, driver, num_pages, current_page,
                   dataframe_list, exc, open_sessions, log, total_results,
                   clicks, x, ret, raw_df, polls>>

\* lines 94-96: the normalizer raises on a cell; nothing catches it, in the
\* fetch or in run_schwab_download, and line 98's driver.quit() is not reached
WriterRaises ==
    /\ pc = "write"
    /\ ~Writer(raw_df, raw_mode).ok
    /\ norm_calls' = Writer(raw_df, raw_mode).calls
    /\ exc' = Writer(raw_df, raw_mode).exc
    /\ log' = Ended("raised")
    /\ pc' = Propagated
    /\ UNCHANGED <<symbol, sort_mode, etf_symbols, valid_etfs, num_files,
                   raw_mode, idx, etf_symbol, driver, num_pages, current_page,
                   dataframe_list, files, open_sessions, total_results,
                   clicks, x, ret, raw_df, polls>>

\* line 97: to_csv cannot write the file
ToCsvRaises ==
    /\ pc = "write"
    /\ Writer(raw_df, raw_mode).ok
    /\ norm_calls' = Writer(raw_df, raw_mode).calls
    /\ exc' = "OSError"
    /\ log' = Ended("raised")
    /\ pc' = Propagated
    /\ UNCHANGED <<symbol, sort_mode, etf_symbols, valid_etfs, num_files,
                   raw_mode, idx, etf_symbol, driver, num_pages, current_page,
                   dataframe_list, files, open_sessions, total_results,
                   clicks, x, ret, raw_df, polls>>

\* the page numbers 2 .. n in ascending order
PagesFrom2(n) == [k \in 1 .. (IF n < 2 THEN 0 ELSE n - 1) |-> k + 1]

\* a fetch of "AAA" that has collected any list of snapshots
AggInit ==
    /\ pc = "aggregate"
    /\ dataframe_list \in SeqsOf(SeqsOf(Rows, 0, MaxRows), 1, MaxSnapshots)
    /\ raw_mode \in BOOLEAN
    /\ num_pages = Len(dataframe_list)
    /\ current_page = Len(dataframe_list) + 1
    /\ total_results = PerPage * Len(dataframe_list)
    /\ clicks = PagesFrom2(Len(dataframe_list))
    /\ symbol = "AAA" /\ sort_mode = FALSE
    /\ etf_symbols = <<"AAA">> /\ valid_etfs = <<>> /\ num_files = 0
    /\ idx = 1 /\ etf_symbol = "AAA" /\ driver = "open" /\ open_sessions = 1
    /\ log = <<Call("AAA", 1, "running")>>
    /\ files = [s \in Symbols |-> NoFile] /\ exc = "none"
    /\ norm_calls = {} /\ x = IntVal(0) /\ ret = Return(IntVal(0))
    /\ raw_df = <<>> /\ polls = 0

AggNext == Aggregate \/ Write \/ WriterRaises \/ ToCsvRaises

SpecAgg == AggInit /\ [][AggNext]_vars

---------------------------------------------------------------------------
(* The constructor (lines 29-40).                                          *)

\* Nothing in the class assigns sort_mode: __init__ stores symbol, raw_mode,
\* wait_time and window_mode, and then reads self.sort_mode on line 39, which
\* raises AttributeError whatever the argument sort_mode is.  The object is
\* never handed to the caller.
init ==
    /\ pc = "new"
    /\ etf_symbols' = <<symbol>>
    /\ valid_etfs' = <<>>
    /\ num_files' = 0
    /\ exc' = "AttributeError"
    /\ pc' = "init_raised"
    /\ UNCHANGED <<symbol, sort_mode, raw_mode, idx, etf_symbol, driver,
                   num_pages, current_page, dataframe_list, files,
                   open_sessions, log, total_results, clicks, norm_calls,
                   x, ret, raw_df, polls>>

---------------------------------------------------------------------------
(* run_schwab_download (lines 102-108) and _get_etf_from_schwab (58-99).   *)

InList(s, q) == \E i \in DOMAIN q : q[i] = s

PageCount_floor(t) == t \div PerPage

\* math.ceil(float(t) / 60) of line 73, for t >= 0
PageCount(t) == (t + PerPage - 1) \div PerPage

\* result counts the pagination indicator may show: none, and for each page
\* count p the counts that just reach p pages, 3 over and that fill p pages
Totals == {0} \cup {(p - 1) * PerPage + r : p \in 1 .. MaxPages, r \in {1, 3, PerPage}}

\* tables the site may render
SiteTables == {<<Row1>>, <<Row1, Row2>>, <<Row3>>}

\* line 103: the list is exhausted
LoopEnd ==
    /\ pc = "loop"
    /\ idx > Len(etf_symbols)
    /\ pc' = "done"
    /\ UNCHANGED <<symbol, sort_mode, etf_symbols, valid_etfs, num_files,
                   raw_mode, idx, etf_symbol, driver, num_pages, current_page,
                   dataframe_list, files, exc, open_sessions, log,
                   total_results, clicks, norm_calls, x, ret, raw_df, polls>>

SkipsWhen_never(s) == FALSE

\* line 104: the symbol is skipped when it is in valid_etfs
SkipsWhen(s) == InList(s, valid_etfs)

\* lines 104-105
SkipDuplicate ==
    /\ pc = "loop"
    /\ idx <= Len(etf_symbols)
    /\ SkipsWhen(etf_symbols[idx])
    /\ idx' = idx + 1
    /\ UNCHANGED <<pc, symbol, sort_mode, etf_symbols, valid_etfs, num_files,
                   raw_mode, etf_symbol, driver, num_pages, current_page,
                   dataframe_list, files, exc, open_sessions, log,
                   total_results, clicks, norm_calls, x, ret, raw_df, polls>>

\* line 106 calls the fetch; lines 59-62 open its browser session
OpenSession ==
    /\ pc = "loop"
    /\ idx <= Len(etf_symbols)
    /\ ~SkipsWhen(etf_symbols[idx])
    /\ etf_symbol' = etf_symbols[idx]
    /\ driver' = "open"
    /\ open_sessions' = open_sessions + 1
    /\ log' = Append(log, Call(etf_symbols[idx], idx, "running"))
    /\ num_pages' = 0 /\ current_page' = 0 /\ dataframe_list' = <<>>
    /\ total_results' = 0 /\ clicks' = <<>> /\ norm_calls' = {}
    /\ raw_df' = <<>> /\ polls' = 0
    /\ pc' = "configure"
    /\ UNCHANGED <<symbol, sort_mode, etf_symbols, valid_etfs, num_files,
                   raw_mode, idx, files, exc, x, ret>>

\* lines 64-66: the page loads and the 60-per-page control is clicked
ConfigurePageSize ==
    /\ pc = "configure"
    /\ pc' = "read_pagination"
    /\ UNCHANGED <<symbol, sort_mode, etf_symbols, valid_etfs, num_files,
                   raw_mode, idx, etf_symbol, driver, num_pages, current_page,
                   dataframe_list, files, exc, open_sessions, log,
                   total_results, clicks, norm_calls, x, ret, raw_df, polls>>

AfterFalse_ends_run(i) == Len(etf_symbols) + 1

\* line 106: a False return adds nothing and the for loop takes the next symbol
AfterFalse(i) == i + 1

FailedQuits_leaves_open(d) == d

\* line 68: the except branch quits the driver
FailedQuits(d) == "quit"

\* lines 64-69: get, find_element or click raises NoSuchElementException or
\* WebDriverException; the fetch quits the driver and returns False, and the
\* loop of run_schwab_download (line 106) goes on to the next symbol
NavigationFailed ==
    /\ pc = "configure"
    /\ \E e \in {"NoSuchElementException", "WebDriverException"} :
          log' = [log EXCEPT ![Len(log)].res = "False", ![Len(log)].err = e]
    /\ driver' = FailedQuits(driver)
    /\ open_sessions' = IF FailedQuits(driver) = "quit"
                        THEN open_sessions - 1 ELSE open_sessions
    /\ idx' = AfterFalse(idx)
    /\ pc' = "loop"
    /\ UNCHANGED <<symbol, sort_mode, etf_symbols, valid_etfs, num_files,
                   raw_mode, etf_symbol, num_pages, current_page,
                   dataframe_list, files, exc, total_results, clicks,
                   norm_calls, x, ret, raw_df, polls>>

\* lines 72-73: the indicator is read at the first attempt
ReadPagination ==
    /\ pc = "read_pagination"
    /\ \E t \in Totals :
          /\ total_results' = t
          /\ num_pages' = PageCount(t)
    /\ pc' = "first_page"
    /\ UNCHANGED <<symbol, sort_mode, etf_symbols, valid_etfs, num_files,
                   raw_mode, idx, etf_symbol, driver, current_page,
                   dataframe_list, files, exc, open_sessions, log, clicks,
                   norm_calls, x, ret, raw_df, polls>>

\* line 74: the first attempt meets a stale element
ReadPaginationStale ==
    /\ pc = "read_pagination"
    /\ pc' = "read_pagination_retry"
    /\ UNCHANGED <<symbol, sort_mode, etf_symbols, valid_etfs, num_files,
                   raw_mode, idx, etf_symbol, driver, num_pages, current_page,
                   dataframe_list, files, exc, open_sessions, log,
                   total_results, clicks, norm_calls, x, ret, raw_df, polls>>

\* lines 75-76: the retry reads the indicator
ReadPaginationRetry ==
    /\ pc = "read_pagination_retry"
    /\ \E t \in Totals :
          /\ total_results' = t
          /\ num_pages' = PageCount(t)
    /\ pc' = "first_page"
    /\ UNCHANGED <<symbol, sort_mode, etf_symbols, valid_etfs, num_files,
                   raw_mode, idx, etf_symbol, driver, current_page,
                   dataframe_list, files, exc, open_sessions, log, clicks,
                   norm_calls, x, ret, raw_df, polls>>

\* a retry that is itself retried: a second stale element sends the fetch back
\* to the wait of line 72
ReadPaginationRaises_retries_again ==
    \/ /\ \/ pc = "read_pagination" /\ exc' = "TimeoutException"
          \/ pc = "read_pagination_retry" /\ exc' = "TimeoutException"
       /\ log' = Ended("raised")
       /\ pc' = Propagated
       /\ UNCHANGED <<symbol, sort_mode, etf_symbols, valid_etfs, num_files,
                      raw_mode, idx, etf_symbol, driver, num_pages,
                      current_page, dataframe_list, files, open_sessions,
                      total_results, clicks, norm_calls, x, ret, raw_df, polls>>
    \/ /\ pc = "read_pagination_retry"
       /\ pc' = "read_pagination"
       /\ UNCHANGED <<symbol, sort_mode, etf_symbols, valid_etfs, num_files,
                      raw_mode, idx, etf_symbol, driver, num_pages,
                      current_page, dataframe_list, files, exc, open_sessions,
                      log, total_results, clicks, norm_calls, x, ret, raw_df,
                      polls>>

\* lines 72 and 75-76: the wait times out (either attempt), or the retry meets
\* a stale element again; the except of line 74 catches neither
ReadPaginationRaises ==
    /\ \/ pc = "read_pagination" /\ exc' = "TimeoutException"
       \/ pc = "read_pagination_retry"
          /\ exc' \in {"TimeoutException", "StaleElementReferenceException"}
    /\ log' = Ended("raised")
    /\ pc' = Propagated
    /\ UNCHANGED <<symbol, sort_mode, etf_symbols, valid_etfs, num_files,
                   raw_mode, idx, etf_symbol, driver, num_pages, current_page,
                   dataframe_list, files, open_sessions, total_results,
                   clicks, norm_calls, x, ret, raw_df, polls>>

\* line 78: the first Page Snapshot
CollectFirstPage ==
    /\ pc = "first_page"
    /\ \E df \in SiteTables : dataframe_list' = <<df>>
    /\ current_page' = 2
    /\ pc' = "next_page"
    /\ UNCHANGED <<symbol, sort_mode, etf_symbols, valid_etfs, num_files,
                   raw_mode, idx, etf_symbol, driver, num_pages, files, exc,
                   open_sessions, log, total_results, clicks, norm_calls,
                   x, ret, raw_df, polls>>

\* lines 79-82: the control of the next page is found and clicked
NextPage ==
    /\ pc = "next_page"
    /\ current_page <= num_pages
    /\ clicks' = Append(clicks, current_page)
    /\ polls' = 0
    /\ pc' = "poll"
    /\ UNCHANGED <<symbol, sort_mode, etf_symbols, valid_etfs, num_files,
                   raw_mode, idx, etf_symbol, driver, num_pages, current_page,
                   dataframe_list, files, exc, open_sessions, log,
                   total_results, norm_calls, x, ret, raw_df>>

\* line 81: the control of the next page is not there
NextButtonMissing ==
    /\ pc = "next_page"
    /\ current_page <= num_pages
    /\ exc' = "NoSuchElementException"
    /\ log' = Ended("raised")
    /\ pc' = Propagated
    /\ UNCHANGED <<symbol, sort_mode, etf_symbols, valid_etfs, num_files,
                   raw_mode, idx, etf_symbol, driver, num_pages, current_page,
                   dataframe_list, files, open_sessions, total_results,
                   clicks, norm_calls, x, ret, raw_df, polls>>

\* line 79: range(2, num_pages + 1) is exhausted
PaginationDone ==
    /\ pc = "next_page"
    /\ current_page > num_pages
    /\ pc' = "aggregate"
    /\ UNCHANGED <<symbol, sort_mode, etf_symbols, valid_etfs, num_files,
                   raw_mode, idx, etf_symbol, driver, num_pages, current_page,
                   dataframe_list, files, exc, open_sessions, log,
                   total_results, clicks, norm_calls, x, ret, raw_df, polls>>

Equals_never(df, prev) == FALSE

\* line 86: df.equals(dataframe_list[-1])
Equals(df, prev) == df = prev

\* a poll that gives up after MaxPolls identical ticks and goes on to the next
\* page without a new snapshot
PollSame_bounded ==
    /\ pc = "poll"
    /\ \E df \in SiteTables : Equals(df, dataframe_list[Len(dataframe_list)])
    /\ polls' = IF polls < MaxPolls THEN polls + 1 ELSE 0
    /\ pc' = IF polls < MaxPolls THEN pc ELSE "next_page"
    /\ current_page' = IF polls < MaxPolls THEN current_page ELSE current_page + 1
    /\ UNCHANGED <<symbol, sort_mode, etf_symbols, valid_etfs, num_files,
                   raw_mode, idx, etf_symbol, driver, num_pages,
                   dataframe_list, files, exc, open_sessions, log,
                   total_results, clicks, norm_calls, x, ret, raw_df>>

\* lines 84-86: a tick whose table equals the last snapshot; the loop goes on
PollSame ==
    /\ pc = "poll"
    /\ \E df \in SiteTables : Equals(df, dataframe_list[Len(dataframe_list)])
    /\ polls' = IF polls < MaxPolls THEN polls + 1 ELSE polls
    /\ UNCHANGED <<pc, symbol, sort_mode, etf_symbols, valid_etfs, num_files,
                   raw_mode, idx, etf_symbol, driver, num_pages, current_page,
                   dataframe_list, files, exc, open_sessions, log,
                   total_results, clicks, norm_calls, x, ret, raw_df>>

\* lines 84-88: a tick whose table differs; it is appended
PollChanged ==
    /\ pc = "poll"
    /\ \E df \in SiteTables :
          /\ ~Equals(df, dataframe_list[Len(dataframe_list)])
          /\ dataframe_list' = Append(dataframe_list, df)
    /\ polls' = 0
    /\ current_page' = current_page + 1
    /\ pc' = "next_page"
    /\ UNCHANGED <<symbol, sort_mode, etf_symbols, valid_etfs, num_files,
                   raw_mode, idx, etf_symbol, driver, num_pages, files, exc,
                   open_sessions, log, total_results, clicks, norm_calls,
                   x, ret, raw_df>>

\* lines 98-99 and 106-108: the driver quits, the fetch returns True and the
\* loop counts the file and the symbol
ReturnTrue ==
    /\ pc = "written"
    /\ driver' = "quit"
    /\ open_sessions' = open_sessions - 1
    /\ log' = Ended("True")
    /\ num_files' = num_files + 1
    /\ valid_etfs' = Append(valid_etfs, etf_symbol)
    /\ idx' = idx + 1
    /\ pc' = "loop"
    /\ UNCHANGED <<symbol, sort_mode, etf_symbols, raw_mode, etf_symbol,
                   num_pages, current_page, dataframe_list, files, exc,
                   total_results, clicks, norm_calls, x, ret, raw_df, polls>>

\* Either the caller constructs a downloader (pc = "new"), or
\* run_schwab_download is entered on an object whose fields hold what lines
\* 32-37 store and whose etf_symbols is any list of symbols (pc = "loop").
Init ==
    /\ \/ /\ pc = "new"
          /\ symbol \in Symbols /\ sort_mode \in BOOLEAN
          /\ etf_symbols = <<>>
       \/ /\ pc = "loop"
          /\ symbol = "AAA" /\ sort_mode = FALSE
          /\ etf_symbols \in SeqsOf(Symbols, 0, MaxSymbols)
    /\ raw_mode \in BOOLEAN
    /\ valid_etfs = <<>> /\ num_files = 0
    /\ idx = 1 /\ etf_symbol = "AAA" /\ driver = "none"
    /\ num_pages = 0 /\ current_page = 0 /\ dataframe_list = <<>>
    /\ files = [s \in Symbols |-> NoFile] /\ exc = "none"
    /\ open_sessions = 0 /\ log = <<>> /\ total_results = 0 /\ clicks = <<>>
    /\ norm_calls = {} /\ x = IntVal(0) /\ ret = Return(IntVal(0))
    /\ raw_df = <<>> /\ polls = 0

Next ==
    \/ init
    \/ LoopEnd \/ SkipDuplicate \/ OpenSession
    \/ ConfigurePageSize \/ NavigationFailed
    \/ ReadPagination \/ ReadPaginationStale \/ ReadPaginationRetry
    \/ ReadPaginationRaises
    \/ CollectFirstPage \/ NextPage \/ NextButtonMissing \/ PaginationDone
    \/ PollSame \/ PollChanged
    \/ Aggregate \/ Write \/ WriterRaises \/ ToCsvRaises
    \/ ReturnTrue

Spec == Init /\ [][Next]_vars

\* run_schwab_download entered on a downloader that writes the tables as
\* read (raw_mode off, line 93), with one or two symbols to fetch
LiveInit ==
    /\ pc = "loop"
    /\ symbol = "AAA" /\ sort_mode = FALSE
    /\ etf_symbols \in SeqsOf(Symbols, 1, 2)
    /\ raw_mode = FALSE
    /\ valid_etfs = <<>> /\ num_files = 0
    /\ idx = 1 /\ etf_symbol = "AAA" /\ driver = "none"
    /\ num_pages = 0 /\ current_page = 0 /\ dataframe_list = <<>>
    /\ files = [s \in Symbols |-> NoFile] /\ exc = "none"
    /\ open_sessions = 0 /\ log = <<>> /\ total_results = 0 /\ clicks = <<>>
    /\ norm_calls = {} /\ x = IntVal(0) /\ ret = Return(IntVal(0))
    /\ raw_df = <<>> /\ polls = 0

\* The steps the interpreter takes by itself. What a poll tick finds on the
\* page (PollSame, PollChanged) is the site's doing and is left out: line 85
\* always runs, but nothing makes the table it reads a different one.
Progress ==
    \/ LoopEnd \/ SkipDuplicate \/ OpenSession
    \/ ConfigurePageSize \/ NavigationFailed
    \/ ReadPagination \/ ReadPaginationStale \/ ReadPaginationRetry
    \/ ReadPaginationRaises
    \/ CollectFirstPage \/ NextPage \/ NextButtonMissing \/ PaginationDone
    \/ Aggregate \/ Write \/ ToCsvRaises
    \/ ReturnTrue

LiveNext == Progress \/ PollSame \/ PollChanged

\* The run as a single thread that is never suspended for good: a statement
\* that can execute does execute.
SpecLive == LiveInit /\ [][LiveNext]_vars /\ WF_vars(Progress)

---------------------------------------------------------------------------
(* What the claims are stated with. *)

Last(q) == q[Len(q)]

\* d is a well-formed non-negative decimal: digits, at most one point
IsDecimal(d) ==
    /\ d # <<>>
    /\ \A i \in DOMAIN d : d[i] \in Digits \cup {"."}
    /\ Cardinality({i \in DOMAIN d : d[i] = "."}) <= 1
    /\ \E i \in DOMAIN d : d[i] \in Digits

\* the digits of d after its point
FracDigits(d) ==
    IF \E i \in DOMAIN d : d[i] = "."
    THEN Len(d) - (CHOOSE i \in DOMAIN d : d[i] = ".") ELSE 0

\* the float d * 10^k
DecimalTimes(d, k) == FloatVal(DigitsToInt(d), k - FracDigits(d))

\* the token without a leading '$' and without a final character in suffixes
NumericPart(s, suffixes) ==
    SubSeq(s, IF s[1] = "$" THEN 2 ELSE 1,
              IF Last(s) \in suffixes THEN Len(s) - 1 ELSE Len(s))

\* the power of ten of a token's magnitude suffix
Power(s) ==
    CASE Last(s) = "K" -> 3 [] Last(s) = "M" -> 6 [] Last(s) = "B" -> 9
      [] OTHER -> 0

\* the run or the construction has ended
Ended_Run == pc \in {"done", "raised"}

\* position j of the list was reached by the loop: a fetch was made for it, or
\* it was skipped as a symbol already fetched with success
Reached(j) ==
    \/ \E k \in DOMAIN log : log[k].pos = j
    \/ InList(etf_symbols[j], valid_etfs)

\* the symbols are in ascending alphabetical order
Rank(s) == IF s = "AAA" THEN 1 ELSE 2
IsSorted(q) == \A i, j \in DOMAIN q : i < j => Rank(q[i]) <= Rank(q[j])

---------------------------------------------------------------------------
(* The claims. *)

\* C1: the step of a fetch in which loading the page or activating the
\* 60-per-page control raises NoSuchElementException or WebDriverException
\* ends the fetch with the return value False and no exception, writes no
\* file, closes the fetch's browser session and leaves num_files and
\* valid_etfs as they were; the loop goes on.
C1_FailedFetch ==
    [][(pc = "configure" /\ Last(log').err # "none") =>
          /\ Last(log').res = "False"
          /\ exc' = "none" /\ pc' = "loop"
          /\ files' = files
          /\ driver' = "quit" /\ open_sessions' = open_sessions - 1
          /\ num_files' = num_files /\ valid_etfs' = valid_etfs]_vars

C1_Witness ==
    /\ pc = "loop" /\ log # <<>>
    /\ Last(log).res = "False" /\ Last(log).err = "NoSuchElementException"
    /\ driver = "quit" /\ open_sessions = 0
    /\ files[Last(log).sym] = NoFile /\ num_files = 0

\* C2, as claimed: when the run has ended, after a fetch that ended in Failed
\* every later position of the list was attempted (or skipped as already
\* fetched), and every later fetch that succeeded has its file and its symbol
\* in valid_etfs.
C2_Original ==
    Ended_Run =>
        \A k \in DOMAIN log : log[k].res = "False" =>
            /\ \A j \in (log[k].pos + 1) .. Len(etf_symbols) : Reached(j)
            /\ \A k2 \in DOMAIN log : (k2 > k /\ log[k2].res = "True") =>
                  /\ files[log[k2].sym] # NoFile
                  /\ InList(log[k2].sym, valid_etfs)

\* C2, amended: when the run has ended, after a fetch that ended in Failed
\* every later position of the list was attempted (or skipped as already
\* fetched) unless the fetch of a position in between raised, which ended the
\* run; every later fetch that succeeded has its file and its symbol in
\* valid_etfs.
C2_FailureIsolation ==
    Ended_Run =>
        \A k \in DOMAIN log : log[k].res = "False" =>
            /\ \A j \in (log[k].pos + 1) .. Len(etf_symbols) :
                  \/ Reached(j)
                  \/ \E k2 \in DOMAIN log :
                        /\ log[k2].res = "raised"
                        /\ log[k].pos < log[k2].pos /\ log[k2].pos < j
            /\ \A k2 \in DOMAIN log : (k2 > k /\ log[k2].res = "True") =>
                  /\ files[log[k2].sym] # NoFile
                  /\ InList(log[k2].sym, valid_etfs)

C2_Witness ==
    /\ pc = "done"
    /\ etf_symbols = <<"BBB", "AAA">>
    /\ log[1].sym = "BBB" /\ log[1].res = "False"
    /\ log[2].sym = "AAA" /\ log[2].res = "True"
    /\ files["AAA"] # NoFile /\ files["BBB"] = NoFile
    /\ valid_etfs = <<"AAA">>

\* C3, as claimed: with sort_mode off, once construction and run have ended
\* every symbol of the input has been attempted, the fetches were made in the
\* order of the input, and no fetch was started for a symbol that an earlier
\* fetch had fetched with success.
C3_Original ==
    (~sort_mode /\ pc \in {"done", "init_raised"}) =>
        /\ exc = "none"
        /\ \A s \in (IF pc = "init_raised" THEN {symbol}
                     ELSE {etf_symbols[j] : j \in DOMAIN etf_symbols}) :
              \E k \in DOMAIN log : log[k].sym = s
        /\ \A k1, k2 \in DOMAIN log : k1 < k2 =>
              /\ log[k1].pos < log[k2].pos
              /\ log[k1].res = "True" => log[k2].sym # log[k1].sym

\* C4, as claimed: with sort_mode on, the constructor ends without an
\* exception and leaves etf_symbols in ascending alphabetical order.
C4_Original ==
    (sort_mode /\ pc # "new") =>
        /\ pc # "init_raised" /\ exc # "AttributeError"
        /\ IsSorted(etf_symbols)

\* the place of a row in the list of snapshots: <<snapshot, row>>
Places ==
    UNION {{<<i, j>> : j \in DOMAIN dataframe_list[i]} : i \in DOMAIN dataframe_list}
Before(p, q) == p[1] < q[1] \/ (p[1] = q[1] /\ p[2] < q[2])
FirstPlace(r) ==
    CHOOSE p \in Places :
        /\ dataframe_list[p[1]][p[2]] = r
        /\ \A q \in Places : dataframe_list[q[1]][q[2]] = r => (q = p \/ Before(p, q))

\* C5: the merged table holds exactly the rows that occur in some snapshot,
\* each once, ordered by the place of their first occurrence in the list.
C5_Aggregator ==
    pc = "write" =>
        /\ {raw_df[i] : i \in DOMAIN raw_df}
              = {dataframe_list[p[1]][p[2]] : p \in Places}
        /\ \A i, j \in DOMAIN raw_df : i # j => raw_df[i] # raw_df[j]
        /\ \A i, j \in DOMAIN raw_df :
              i < j => Before(FirstPlace(raw_df[i]), FirstPlace(raw_df[j]))

C5_Witness ==
    /\ pc = "write"
    /\ dataframe_list = <<(<<Row1, Row2>>), (<<Row2, Row3>>)>>
    /\ raw_df = <<Row1, Row2, Row3>>

\* C6: for a text token '$'? d (K|M|B)? with d a well-formed non-negative
\* decimal, the normalizer returns d * 1e3, d * 1e6, d * 1e9 by the suffix
\* and d without one.
C6_MagnitudeAndPlain ==
    (/\ pc = "norm_done" /\ x.t = "str" /\ x.s # <<>>
     /\ IsDecimal(NumericPart(x.s, {"K", "M", "B"}))) =>
        ret = Return(DecimalTimes(NumericPart(x.s, {"K", "M", "B"}), Power(x.s)))

C6_Witness ==
    /\ pc = "norm_done"
    /\ x = StrVal(<<"$", "1", "5", "M">>)
    /\ ret.ok /\ ret.val.t = "float" /\ ret.val.m = 15 /\ ret.val.e = 6

\* C7, as claimed: for a text token that does not begin with '-' and ends
\* with '%', whose numeric part (without a leading '$' and the '%') is a
\* well-formed decimal d, the normalizer returns d / 100.
C7_Original ==
    (/\ pc = "norm_done" /\ x.t = "str" /\ x.s # <<>>
     /\ x.s[1] # "-" /\ Last(x.s) = "%"
     /\ IsDecimal(NumericPart(x.s, {"%"}))) =>
        ret = Return(DecimalTimes(NumericPart(x.s, {"%"}), 0 - 2))

\* C8: for a text token whose first character is '-', the normalizer returns
\* 0 and raises nothing, whatever follows the sign.
C8_NegativeClamp ==
    (pc = "norm_done" /\ x.t = "str" /\ x.s # <<>> /\ x.s[1] = "-") =>
        ret.ok /\ ret.val.m = 0 /\ ret.val.e = 0 /\ ret.val.t \in {"int", "float"}

C8_Witness ==
    /\ pc = "norm_done"
    /\ x = StrVal(<<"-", "5", "$", "%">>)
    /\ ret = Return(IntVal(0))

\* C9, as claimed: a float and an int are returned unchanged.
C9_Original ==
    (pc = "norm_done" /\ x.t \in {"float", "int"}) => ret = Return(x)

\* C10: the file the writer writes has the rows of the merged table in their
\* order and with their Symbol and Description; with raw_mode off its three
\* numeric columns are the scraped cells and the normalizer was not called,
\* with raw_mode on they are the normalizer's values of the scraped cells and
\* the normalizer was called on these three cells of every row and on no other.
C10_WriterFrame ==
    pc = "written" =>
        LET f == files[etf_symbol].rows IN
        /\ files[etf_symbol].exists
        /\ Len(f) = Len(raw_df)
        /\ \A i \in DOMAIN raw_df :
              /\ f[i][1] = raw_df[i][1] /\ f[i][2] = raw_df[i][2]
              /\ \A c \in {3, 4, 5} :
                    IF raw_mode
                    THEN Return(f[i][c]) = _convert_units_to_float(raw_df[i][c])
                    ELSE f[i][c] = raw_df[i][c]
        /\ norm_calls = IF raw_mode THEN (DOMAIN raw_df) \X {3, 4, 5} ELSE {}

C10_Witness ==
    /\ pc = "written" /\ raw_mode
    /\ raw_df = <<Row1, Row2>>
    /\ files[etf_symbol].rows[2][1] = Txt(<<"A">>)
    /\ files[etf_symbol].rows[2][3] = FloatVal(46, 0 - 3)
    /\ files[etf_symbol].rows[2][4] = FloatVal(35, 2)
    /\ files[etf_symbol].rows[2][5] = FloatVal(12, 5)
    /\ norm_calls = {1, 2} \X {3, 4, 5}

\* C11: the step in which the normalizer's parse failure (ValueError) or the
\* pagination wait's timeout is raised ends the run with that exception: no
\* file is written for the symbol, the symbol is not added to the Run
\* Summary, and no step follows it, so no later symbol is attempted.
C11_BatchAbort ==
    [][/\ pc # "raised"
       /\ (exc' # exc /\ exc' \in {"ValueError", "TimeoutException"}) =>
             /\ pc' = "raised"
             /\ Last(log').res = "raised" /\ Last(log').sym = etf_symbol
             /\ files' = files /\ ~files'[etf_symbol].exists
             /\ valid_etfs' = valid_etfs /\ num_files' = num_files
             /\ ~InList(etf_symbol, valid_etfs')
             /\ \A k \in DOMAIN log' : log'[k].pos <= idx]_vars

C11_Witness ==
    /\ pc = "raised" /\ exc = "ValueError"
    /\ etf_symbols = <<"AAA", "BBB">> /\ idx = 1
    /\ log = <<[sym |-> "AAA", pos |-> 1, res |-> "raised", err |-> "none"]>>
    /\ ~files["AAA"].exists /\ valid_etfs = <<>> /\ num_files = 0

\* a fetch is between its first read of the table and its return
Collecting == pc \in {"next_page", "poll", "aggregate", "write", "written"}

C13_Stability ==
    [][/\ \A i \in 1 .. Len(dataframe_list') - 1 :
             dataframe_list'[i] # dataframe_list'[i + 1]
       /\ (pc = "poll" /\ dataframe_list' # dataframe_list) =>
             /\ Len(dataframe_list') = Len(dataframe_list) + 1
             /\ SubSeq(dataframe_list', 1, Len(dataframe_list)) = dataframe_list
             /\ Last(dataframe_list') # Last(dataframe_list)]_vars

C13_Witness ==
    /\ pc = "next_page"
    /\ dataframe_list = <<(<<Row1>>), (<<Row1, Row2>>)>>
    /\ clicks = <<2>>

\* C14: a poll tick that reads a table identical to the last snapshot leaves
\* the fetch in the poll loop with no file written, no result and no later
\* symbol started, so a table that stays identical forever keeps the fetch
\* there forever; and if every poll eventually ends (the table eventually
\* differs), a fetch that is polling eventually returns True unless an error
\* is raised.
C14_UnboundedPoll ==
    /\ [][(pc = "poll" /\ dataframe_list' = dataframe_list) =>
             /\ pc' = "poll"
             /\ files' = files /\ log' = log /\ Last(log').res = "running"
             /\ idx' = idx /\ valid_etfs' = valid_etfs /\ exc' = "none"]_vars
    /\ [](pc = "poll" => <>(pc # "poll")) =>
          [](pc = "poll" =>
                <>(\/ pc = "loop" /\ log # <<>> /\ Last(log).res = "True"
                   \/ pc = "raised"))

C14_Witness ==
    /\ pc = "poll" /\ polls = MaxPolls
    /\ Len(dataframe_list) = 1 /\ num_pages = 2
    /\ ~files[etf_symbol].exists

\* C15: the first read of the pagination indicator is followed by the first
\* page, by the one retry, or by a propagated exception; the retry is entered
\* only from the first read and is followed by the first page, with the page
\* count of the total it read, or by a propagated exception, never by another
\* read; a stale element is raised only by the retry, and then the fetch ends
\* with it, no file is written and the symbol is not in valid_etfs.
C15_StaleRetry ==
    [][/\ (pc = "read_pagination" /\ pc' # pc) =>
             pc' \in {"first_page", "read_pagination_retry", "raised"}
       /\ (pc # "read_pagination_retry" /\ pc' = "read_pagination_retry") =>
             pc = "read_pagination"
       /\ (pc = "read_pagination_retry" /\ pc' # pc) =>
             pc' \in {"first_page", "raised"}
       /\ (pc = "read_pagination_retry" /\ pc' = "first_page") =>
             /\ num_pages' = PageCount(total_results')
             /\ Last(log').res = "running" /\ exc' = "none"
       /\ (exc' # exc /\ exc' = "StaleElementReferenceException") =>
             /\ pc = "read_pagination_retry" /\ pc' = "raised"
             /\ Last(log').res = "raised"
             /\ files' = files /\ ~files'[etf_symbol].exists
             /\ valid_etfs' = valid_etfs
             /\ ~InList(etf_symbol, valid_etfs')]_vars

C15_Witness ==
    /\ pc = "raised" /\ exc = "StaleElementReferenceException"
    /\ Last(log).res = "raised" /\ Last(log).sym = etf_symbol
    /\ ~files[etf_symbol].exists /\ ~InList(etf_symbol, valid_etfs)
    /\ num_pages = 0

\* C16: at most one browser session is open at any time; a session is opened
\* exactly when a fetch begins, one per fetch; and when a fetch begins no
\* session is open and every earlier fetch has returned.
C16_SequentialSessions ==
    /\ [](open_sessions \in {0, 1})
    /\ [][/\ (open_sessions' > open_sessions) <=> (Len(log') = Len(log) + 1)
          /\ Len(log') = Len(log) + 1 =>
                /\ open_sessions = 0 /\ driver # "open"
                /\ open_sessions' = 1 /\ driver' = "open"
                /\ \A k \in DOMAIN log : log[k].res \in {"True", "False"}]_vars

C16_Witness ==
    /\ pc = "configure" /\ Len(log) = 2
    /\ log[1].res = "True" /\ log[2].res = "running"
    /\ open_sessions = 1 /\ driver = "open"

\* C17, as claimed: whenever a fetch has ended, by a True or False return or
\* by a propagated exception, its browser session has been closed and no
\* session is open.
C17_Original ==
    (log # <<>> /\ Last(log).res \in {"True", "False", "raised"}) =>
        open_sessions = 0 /\ driver = "quit"

\* C18: in every state num_files is the length of valid_etfs, valid_etfs holds
\* no symbol twice, and each of its symbols has its file and a fetch that
\* returned True; a step changes valid_etfs only by appending the symbol of
\* the fetch that has just written its file and returns True, and never
\* lowers num_files.
C18_RunSummary ==
    /\ [](/\ num_files = Len(valid_etfs)
          /\ \A i, j \in DOMAIN valid_etfs :
                i # j => valid_etfs[i] # valid_etfs[j]
          /\ \A i \in DOMAIN valid_etfs :
                /\ files[valid_etfs[i]].exists
                /\ \E k \in DOMAIN log :
                      log[k].sym = valid_etfs[i] /\ log[k].res = "True")
    /\ [][/\ num_files' >= num_files
          /\ Len(valid_etfs') >= Len(valid_etfs)
          /\ SubSeq(valid_etfs', 1, Len(valid_etfs)) = valid_etfs
          /\ valid_etfs' # valid_etfs =>
                /\ pc = "written" /\ files[etf_symbol].exists
                /\ valid_etfs' = Append(valid_etfs, etf_symbol)
                /\ Last(log').res = "True"]_vars

C18_Witness ==
    /\ pc = "done"
    /\ etf_symbols = <<"AAA", "BBB", "AAA">>
    /\ valid_etfs = <<"AAA", "BBB">> /\ num_files = 2
    /\ Len(log) = 2
    /\ files["AAA"].exists /\ files["BBB"].exists

\* the key of a holding: its Symbol and Description
Key(r) == <<r[1], r[2]>>
UniqueKeys(df) == \A i, j \in DOMAIN df : i # j => Key(df[i]) # Key(df[j])

\* a list of snapshots the pagination loop can leave: each page lists a
\* holding once and no snapshot equals the one before it
FromPagination(dfs) ==
    /\ \A i \in DOMAIN dfs : UniqueKeys(dfs[i])
    /\ \A i \in 1 .. Len(dfs) - 1 : dfs[i] # dfs[i + 1]

\* C19, as claimed: for every list of snapshots the pagination loop can
\* leave, no two rows of the merged table have the same Symbol and
\* Description.
C19_Original ==
    (pc = "write" /\ FromPagination(dataframe_list)) => UniqueKeys(raw_df)

=============================================================================
